---- MODULE Spec2Model ----
(***************************************************************************)
(* Model of src/service/attest.rs: the attestation orchestrator            *)
(* try_attest and the DER encoders it is built from.                       *)
(*                                                                         *)
(* An encodable value is modelled by the pair its Encodable impl yields:   *)
(*   len   - what encoded_length() returns,                                *)
(*   bytes - what encode() writes to the encoder.                          *)
(* The two are computed separately, each from its own function body.       *)
(***************************************************************************)
EXTENDS Integers, Sequences, FiniteSets, TLC

(***************************************************************************)
(* Bounds of the model.                                                    *)
(***************************************************************************)
\* try_attest calls made one after the other in one behaviour
MaxCalls == 2
\* key handles a caller may pass and a keystore may hold: 1..MaxHandle
MaxHandle == 2
\* longest byte slice given to BigEndianInteger besides the 20-byte serials
MaxIntLen == 3

(***************************************************************************)
(* Constant tables.                                                        *)
(***************************************************************************)
ED255_ATTN_KEY == 1
P256_ATTN_KEY == 2

\* 06 08 2A 86 48 CE 3D 04 03 02
P256_OID_ENCODING == <<6, 8, 42, 134, 72, 206, 61, 4, 3, 2>>
\* 06 03 2B 65 70
ED255_OID_ENCODING == <<6, 3, 43, 101, 112>>
\* 02 01 02
Version_ENCODING == <<2, 1, 2>>

\* flexiber tag octets (class | constructed | number)
Tag == [ SEQUENCE         |-> 48,   \* 0x30
         SET              |-> 49,   \* 0x31
         INTEGER          |-> 2,
         BIT_STRING       |-> 3,
         OBJECT_IDENTIFIER |-> 6,
         UTF8_STRING      |-> 12,
         UTC_TIME         |-> 23,
         GENERALIZED_TIME |-> 24,
         CONTEXT_0        |-> 160 ] \* 0xA0: constructed, context, number 0

Fill(n, b) == [i \in 1..n |-> b]

RECURSIVE SumLen(_)
SumLen(es) == IF es = <<>> THEN 0 ELSE Head(es).len + SumLen(Tail(es))

RECURSIVE CatBytes(_)
CatBytes(es) == IF es = <<>> THEN <<>> ELSE Head(es).bytes \o CatBytes(Tail(es))

(***************************************************************************)
(* TLV framing (flexiber): definite length octets, a tagged slice, and a   *)
(* tagged value whose header carries the value's encoded_length().         *)
(***************************************************************************)
Length_encode(n) ==
    IF n < 128 THEN <<n>>
    ELSE IF n < 256 THEN <<129, n>>
    ELSE <<130, (n \div 256) % 256, n % 256>>

Header(tag, n) == <<tag>> \o Length_encode(n)

\* a byte slice written as it is (impl Encodable for &[u8])
Slice(s) == [len |-> Len(s), bytes |-> s]

TaggedSlice(tag, s) ==
    [len |-> Len(Header(tag, Len(s))) + Len(s), bytes |-> Header(tag, Len(s)) \o s]

TaggedValue(tag, e) ==
    [len |-> Len(Header(tag, e.len)) + e.len, bytes |-> Header(tag, e.len) \o e.bytes]

\* fields of a derived struct, one after the other
Fields(es) == [len |-> SumLen(es), bytes |-> CatBytes(es)]

(***************************************************************************)
(* Version                                                                 *)
(***************************************************************************)
Version_encoded_length == Len(Version_ENCODING) % 256

Version_encode == Version_ENCODING

Version == [len |-> Version_encoded_length, bytes |-> Version_encode]

(***************************************************************************)
(* BigEndianInteger                                                        *)
(***************************************************************************)
RECURSIVE TrimLeadingZeros(_)
TrimLeadingZeros(num) ==
    IF num # <<>> /\ num[1] = 0 THEN TrimLeadingZeros(Tail(num)) ELSE num

BigEndianInteger_encoded_length(num0) ==
    LET num == TrimLeadingZeros(num0)
        l   == Len(num)
    IN  (IF num = <<>> \/ num[1] >= 128 THEN l + 1 ELSE l) % 65536

\* encode with the padding test off by one: 0x80 itself is not padded
BigEndianInteger_encode_above_0x80(num0) ==
    LET num == TrimLeadingZeros(num0)
    IN  (IF num = <<>> \/ num[1] > 128 THEN <<0>> ELSE <<>>) \o num

BigEndianInteger_encode(num0) ==
    LET num == TrimLeadingZeros(num0)
    IN  (IF num = <<>> \/ num[1] >= 128 THEN <<0>> ELSE <<>>) \o num

BigEndianInteger(num) ==
    [len |-> BigEndianInteger_encoded_length(num), bytes |-> BigEndianInteger_encode(num)]

(***************************************************************************)
(* SignatureAlgorithm                                                      *)
(***************************************************************************)
SignatureAlgorithm_encoded_length(alg) ==
    (IF alg = "Ed255" THEN Len(ED255_OID_ENCODING) ELSE Len(P256_OID_ENCODING)) % 256

SignatureAlgorithm_encode(alg) ==
    IF alg = "Ed255" THEN ED255_OID_ENCODING ELSE P256_OID_ENCODING

SignatureAlgorithm(alg) ==
    [len |-> SignatureAlgorithm_encoded_length(alg), bytes |-> SignatureAlgorithm_encode(alg)]

(***************************************************************************)
(* Name: country and organization are <<>> (None) or <<value>> (Some).     *)
(***************************************************************************)
EncodedOrganization(oid, organization) ==
    TaggedValue(Tag.SEQUENCE,
        Fields(<< TaggedValue(Tag.OBJECT_IDENTIFIER, Slice(oid)),
                  TaggedValue(Tag.UTF8_STRING, Slice(organization)) >>))

Name_encoded_length(name) ==
    LET l0 == 0
        l1 == IF name.country # <<>> THEN l0 + 13 ELSE l0
        l2 == IF name.organization # <<>>
              THEN l1 + 11 + (Len(name.organization[1]) % 65536) ELSE l1
    IN  l2 % 65536

Name_encode(name) ==
    (IF name.country # <<>>
     THEN TaggedSlice(Tag.SET,
              <<48, 9, 6, 3, 85, 4, 6, 19, 2>> \o name.country[1]).bytes
     ELSE <<>>)
    \o
    (IF name.organization # <<>>
     THEN TaggedValue(Tag.SET,
              EncodedOrganization(<<85, 4, 10>>, name.organization[1])).bytes
     ELSE <<>>)

Name(name) == [len |-> Name_encoded_length(name), bytes |-> Name_encode(name)]

Name_default == [country |-> <<>>, organization |-> <<>>]

with_organization(name, organization) ==
    [country |-> name.country, organization |-> <<organization>>]

with_country(name, country) ==
    [country |-> <<country>>, organization |-> name.organization]

(***************************************************************************)
(* Datetime and Validity.  A Datetime is the byte string of its literal.   *)
(***************************************************************************)
\* lexicographic order of byte slices (the slice comparison of Rust)
RECURSIVE LexLess(_, _)
LexLess(a, b) ==
    IF b = <<>> THEN FALSE
    ELSE IF a = <<>> THEN TRUE
    ELSE IF a[1] # b[1] THEN a[1] < b[1]
    ELSE LexLess(Tail(a), Tail(b))

\* b"2050"
Year2050 == <<50, 48, 53, 48>>

Datetime_encoded_length(dt) ==
    IF LexLess(SubSeq(dt, 1, 4), Year2050) THEN 15 ELSE 17

\* encode with the cutover one year late: "2050" still goes out as UTCTime
Datetime_encode_through_2050(dt) ==
    IF ~LexLess(Year2050, SubSeq(dt, 1, 4))
    THEN TaggedSlice(Tag.UTC_TIME, SubSeq(dt, 3, Len(dt))).bytes
    ELSE TaggedSlice(Tag.GENERALIZED_TIME, dt).bytes

Datetime_encode(dt) ==
    IF LexLess(SubSeq(dt, 1, 4), Year2050)
    THEN TaggedSlice(Tag.UTC_TIME, SubSeq(dt, 3, Len(dt))).bytes
    ELSE TaggedSlice(Tag.GENERALIZED_TIME, dt).bytes

Datetime(dt) == [len |-> Datetime_encoded_length(dt), bytes |-> Datetime_encode(dt)]

\* impl Encodable for Option<T>: None has length 0 and writes nothing
Option_encoded_length(o) == IF o = <<>> THEN 0 ELSE Datetime_encoded_length(o[1])

\* b"99991231235959Z"
DefaultEnd == <<57, 57, 57, 57, 49, 50, 51, 49, 50, 51, 53, 57, 53, 57, 90>>

\* b"20210313120000Z"
FixedStart == <<50, 48, 50, 49, 48, 51, 49, 51, 49, 50, 48, 48, 48, 48, 90>>

Validity_encoded_length(v) ==
    (Datetime_encoded_length(v.start) + Option_encoded_length(v.end)) % 65536

Validity_encode(v) ==
    Datetime_encode(v.start)
    \o Datetime_encode(IF v.end = <<>> THEN DefaultEnd ELSE v.end[1])

Validity(v) == [len |-> Validity_encoded_length(v), bytes |-> Validity_encode(v)]

(***************************************************************************)
(* SerializedSubjectPublicKey: [variant, key]                              *)
(***************************************************************************)
SerializedSubjectPublicKey_encoded_length(spki) ==
    (IF spki.variant = "Ed255" THEN 42 ELSE 89) % 256

SerializedSubjectPublicKey_encode(spki) ==
    IF spki.variant = "Ed255"
    THEN TaggedSlice(Tag.SEQUENCE, ED255_OID_ENCODING).bytes
         \o TaggedSlice(Tag.BIT_STRING, <<0>> \o spki.key).bytes
    ELSE TaggedSlice(Tag.SEQUENCE, P256_OID_ENCODING).bytes
         \o TaggedSlice(Tag.BIT_STRING, <<0>> \o spki.key).bytes

SerializedSubjectPublicKey(spki) ==
    [len   |-> SerializedSubjectPublicKey_encoded_length(spki),
     bytes |-> SerializedSubjectPublicKey_encode(spki)]

(***************************************************************************)
(* SerializedSignature: [variant, sig]                                     *)
(***************************************************************************)
SerializedSignature_encoded_length(signature) ==
    (IF signature.variant = "Ed255" THEN 65
     ELSE (Len(signature.sig) % 65536) + 1) % 256

SerializedSignature_encode(signature) ==
    IF signature.variant = "Ed255"
    THEN TaggedSlice(Tag.BIT_STRING, <<0>> \o signature.sig).bytes
    ELSE TaggedSlice(Tag.SEQUENCE, P256_OID_ENCODING).bytes
         \o TaggedSlice(Tag.BIT_STRING, <<0>> \o signature.sig).bytes

SerializedSignature(signature) ==
    [len   |-> SerializedSignature_encoded_length(signature),
     bytes |-> SerializedSignature_encode(signature)]

(***************************************************************************)
(* TbsCertificate (derived, no tag of its own) and Certificate (derived,   *)
(* SEQUENCE).  Every field is written as a tagged value: the field's tag,  *)
(* the field's encoded_length(), then what the field's encode() writes.    *)
(***************************************************************************)
TbsCertificate(tbs) ==
    Fields(<< TaggedValue(Tag.CONTEXT_0, Version),
              TaggedValue(Tag.INTEGER, BigEndianInteger(tbs.serial)),
              TaggedValue(Tag.SEQUENCE, SignatureAlgorithm(tbs.signature_algorithm)),
              TaggedValue(Tag.SEQUENCE, Name(tbs.issuer)),
              TaggedValue(Tag.SEQUENCE, Validity(tbs.validity)),
              TaggedValue(Tag.SEQUENCE, Name(tbs.subject)),
              TaggedValue(Tag.SEQUENCE,
                          SerializedSubjectPublicKey(tbs.subject_public_key_info)) >>)

Certificate(cert) ==
    TaggedValue(Tag.SEQUENCE,
        Fields(<< TaggedValue(Tag.SEQUENCE, Slice(cert.tbs_certificate)),
                  TaggedValue(Tag.SEQUENCE, SignatureAlgorithm(cert.signature_algorithm)),
                  TaggedValue(Tag.BIT_STRING, SerializedSignature(cert.signature)) >>))

\* b"Trussed"
Trussed == <<84, 114, 117, 115, 115, 101, 100>>

\* the TbsCertificate value try_attest builds from serial, algorithm and SPKI
MakeTbs(serial, alg, spki) ==
    [ serial                  |-> serial,
      signature_algorithm     |-> alg,
      issuer                  |-> with_organization(Name_default, Trussed),
      subject                 |-> Name_default,
      validity                |-> [start |-> FixedStart, end |-> <<>>],
      subject_public_key_info |-> spki ]

\* TaggedValue::new(Tag::SEQUENCE, &to_be_signed_certificate)
MakeMessage(tbs) == TaggedValue(Tag.SEQUENCE, TbsCertificate(tbs))

(***************************************************************************)
(* State.                                                                  *)
(*  pc            where the running try_attest call stands, or "idle"      *)
(*                between calls, or "panicked" after an unwrap failed      *)
(*  calls         try_attest calls made so far                             *)
(*  request       the AttestRequest of the current (or last) call          *)
(*  keystore      key objects of the client keystore: [id, mechanism, kind]*)
(*  attn_keystore key objects of the attestation keystore                  *)
(*  certstore     persisted certificates: [id, der]                        *)
(*  counterstore  the counter write_certificate numbers certificates with  *)
(*  frame         the locals of the running call                           *)
(*  pre           the stores as they were when the call began              *)
(*  log           the collaborator requests the call has issued, in order  *)
(*  result        what the last call returned                              *)
(*  val, out      an encodable value and what its Encodable impl yields    *)
(***************************************************************************)
VARIABLES pc, calls, request, keystore, attn_keystore, certstore, counterstore,
          frame, pre, log, result, val, out

vars == <<pc, calls, request, keystore, attn_keystore, certstore, counterstore,
          frame, pre, log, result, val, out>>

Mechanisms == {"Ed255", "P256", "X255"}

Handles == 1..MaxHandle

\* the error a failing collaborator answers with (one stands for all)
CollaboratorErrors == {"FilesystemReadFailure"}

NoResult == [kind |-> "None", certificate |-> 0, error |-> "-"]
Ok(id) == [kind |-> "Ok", certificate |-> id, error |-> "-"]
Err(e) == [kind |-> "Err", certificate |-> 0, error |-> e]
Panicked == [kind |-> "Panic", certificate |-> 0, error |-> "-"]

EmptyFrame ==
    [ signature_algorithm |-> "-", serial |-> <<>>, subject |-> "-", public_key |-> 0,
      serialized_key |-> <<>>, spki |-> [variant |-> "-", key |-> <<>>],
      message |-> <<>>, signature |-> [variant |-> "-", sig |-> <<>>],
      certificate |-> <<>> ]

\* a request to a collaborator; answer is filled in when it answers
Entry(op, store, mechanism, key, format, message) ==
    [op |-> op, store |-> store, mechanism |-> mechanism, key |-> key,
     format |-> format, message |-> message, answer |-> "-"]

Answered(entry, answer) == [entry EXCEPT !.answer = answer]

(***************************************************************************)
(* Collaborators, by their interface.                                      *)
(***************************************************************************)
SecretKeys == {[id |-> h, mechanism |-> m, kind |-> "secret"] : h \in Handles, m \in {"Ed255", "P256"}}

exists_key(ks, m, key) ==
    \E k \in ks : k.id = key /\ k.mechanism = m /\ k.kind = "secret"

Ids(ks) == {k.id : k \in ks}

\* identifiers a new key object may get: any not in use
FreshIds(ks) == {MaxHandle + 1, MaxHandle + 2} \ Ids(ks)

derive_key(ks, m, id) == ks \cup {[id |-> id, mechanism |-> m, kind |-> "public"]}

delete_key(ks, id) == {k \in ks : k.id # id}

\* what serialize_key may answer: the right length, or one byte short
SerializedKeys(m) ==
    IF m = "Ed255" THEN {Fill(32, 171), Fill(31, 171)}
    ELSE {<<4>> \o Fill(64, 171), <<4>> \o Fill(63, 171)}

\* what sign may answer: raw 64 bytes (or one short), DER of up to 72 (or one over)
Signatures(m) ==
    IF m = "Ed255" THEN {Fill(64, 205), Fill(63, 205)}
    ELSE {Fill(72, 205), Fill(73, 205)}

\* 20 bytes of the keystore's random source; their value steers no branch of
\* try_attest, the encoders are exercised on more of them below
Serials == {<<128>> \o Fill(19, 7)}

write_certificate(cs, ctr, der) == cs \cup {[id |-> ctr + 1, der |-> der]}

(***************************************************************************)
(* try_attest                                                              *)
(***************************************************************************)
\* try_from with a catch-all arm that resolves instead of rejecting
try_from_catch_all(mechanism) ==
    IF mechanism = "P256" THEN [ok |-> TRUE, value |-> "P256", error |-> "-"]
    ELSE [ok |-> TRUE, value |-> "Ed255", error |-> "-"]

SignatureAlgorithm_try_from(mechanism) ==
    IF mechanism = "Ed255" THEN [ok |-> TRUE, value |-> "Ed255", error |-> "-"]
    ELSE IF mechanism = "P256" THEN [ok |-> TRUE, value |-> "P256", error |-> "-"]
    ELSE [ok |-> FALSE, value |-> "-", error |-> "MechanismNotAvailable"]

Return(r) == pc' = "idle" /\ result' = r

Panic == pc' = "panicked" /\ result' = Panicked

Stores == <<keystore, attn_keystore, certstore, counterstore>>

Enc == <<val, out>>

\* entry and SignatureAlgorithm::try_from(request.signing_mechanism)?
Attest(req) ==
    /\ pc = "idle"
    /\ calls < MaxCalls
    /\ calls' = calls + 1
    /\ request' = req
    /\ log' = <<>>
    /\ pre' = [keystore |-> keystore, attn_keystore |-> attn_keystore,
              certstore |-> certstore, counterstore |-> counterstore]
    /\ LET r == SignatureAlgorithm_try_from(req.signing_mechanism)
       IN  IF r.ok
           THEN /\ frame' = [EmptyFrame EXCEPT !.signature_algorithm = r.value]
                /\ pc' = "fill_serial"
                /\ result' = NoResult
           ELSE /\ frame' = EmptyFrame
                /\ Return(Err(r.error))
    /\ UNCHANGED <<Stores, Enc>>

\* the request is issued and answered
Issue(entry, answer) == log' = Append(log, Answered(entry, answer))

\* keystore.drbg().fill_bytes(&mut serial)
FillSerial ==
    /\ pc = "fill_serial"
    /\ \E s \in Serials : frame' = [frame EXCEPT !.serial = s]
    /\ Issue(Entry("drbg", "keystore", "-", 0, "-", <<>>), "ok")
    /\ pc' = "exists_ed255"
    /\ UNCHANGED <<calls, request, Stores, pre, result, Enc>>

ExistsRequest(m) == Entry("exists", "keystore", m, request.private_key, "-", <<>>)

\* the Ed255 answer not final: a handle that P256 holds too is asked about again
ExistsEd255_p256_wins ==
    /\ pc = "exists_ed255"
    /\ \/ /\ exists_key(keystore, "Ed255", request.private_key)
          /\ Issue(ExistsRequest("Ed255"), "true")
          /\ IF exists_key(keystore, "P256", request.private_key)
             THEN pc' = "exists_p256" /\ UNCHANGED frame
             ELSE pc' = "derive_key" /\ frame' = [frame EXCEPT !.subject = "Ed255"]
          /\ UNCHANGED result
       \/ /\ ~exists_key(keystore, "Ed255", request.private_key)
          /\ Issue(ExistsRequest("Ed255"), "false")
          /\ pc' = "exists_p256"
          /\ UNCHANGED <<frame, result>>
       \/ /\ Issue(ExistsRequest("Ed255"), "err")
          /\ \E e \in CollaboratorErrors : Return(Err(e))
          /\ UNCHANGED frame
    /\ UNCHANGED <<calls, request, Stores, pre, Enc>>

\* if mechanisms::Ed255::exists(keystore, ..)?.exists
ExistsEd255 ==
    /\ pc = "exists_ed255"
    /\ \/ /\ exists_key(keystore, "Ed255", request.private_key)
          /\ Issue(ExistsRequest("Ed255"), "true")
          /\ frame' = [frame EXCEPT !.subject = "Ed255"]
          /\ pc' = "derive_key"
          /\ UNCHANGED result
       \/ /\ ~exists_key(keystore, "Ed255", request.private_key)
          /\ Issue(ExistsRequest("Ed255"), "false")
          /\ pc' = "exists_p256"
          /\ UNCHANGED <<frame, result>>
       \/ /\ Issue(ExistsRequest("Ed255"), "err")
          /\ \E e \in CollaboratorErrors : Return(Err(e))
          /\ UNCHANGED frame
    /\ UNCHANGED <<calls, request, Stores, pre, Enc>>

\* the P256 arm taken whatever exists answers (the final else arm lost)
ExistsP256_no_else ==
    /\ pc = "exists_p256"
    /\ \/ /\ Issue(ExistsRequest("P256"),
                   IF exists_key(keystore, "P256", request.private_key) THEN "true" ELSE "false")
          /\ frame' = [frame EXCEPT !.subject = "P256"]
          /\ pc' = "derive_key"
          /\ UNCHANGED result
       \/ /\ Issue(ExistsRequest("P256"), "err")
          /\ \E e \in CollaboratorErrors : Return(Err(e))
          /\ UNCHANGED frame
    /\ UNCHANGED <<calls, request, Stores, pre, Enc>>

\* else if mechanisms::P256::exists(keystore, ..)?.exists .. else return Err(NoSuchKey)
ExistsP256 ==
    /\ pc = "exists_p256"
    /\ \/ /\ exists_key(keystore, "P256", request.private_key)
          /\ Issue(ExistsRequest("P256"), "true")
          /\ frame' = [frame EXCEPT !.subject = "P256"]
          /\ pc' = "derive_key"
          /\ UNCHANGED result
       \/ /\ ~exists_key(keystore, "P256", request.private_key)
          /\ Issue(ExistsRequest("P256"), "false")
          /\ Return(Err("NoSuchKey"))
          /\ UNCHANGED frame
       \/ /\ Issue(ExistsRequest("P256"), "err")
          /\ \E e \in CollaboratorErrors : Return(Err(e))
          /\ UNCHANGED frame
    /\ UNCHANGED <<calls, request, Stores, pre, Enc>>

DeriveKeyRequest == Entry("derive_key", "keystore", frame.subject, request.private_key, "Volatile", <<>>)

\* derive_key(keystore, DeriveKey { mechanism, base_key: request.private_key, Volatile })?.key
DeriveKey ==
    /\ pc = "derive_key"
    /\ \/ /\ Issue(DeriveKeyRequest, "ok")
          /\ \E id \in FreshIds(keystore) :
              /\ keystore' = derive_key(keystore, frame.subject, id)
              /\ frame' = [frame EXCEPT !.public_key = id]
          /\ pc' = "serialize_key"
          /\ UNCHANGED result
       \/ /\ Issue(DeriveKeyRequest, "err")
          /\ \E e \in CollaboratorErrors : Return(Err(e))
          /\ UNCHANGED <<frame, keystore>>
    /\ UNCHANGED <<calls, request, attn_keystore, certstore, counterstore, pre, Enc>>

KeyFormat(m) == IF m = "Ed255" THEN "Raw" ELSE "Sec1"

SerializeKeyRequest ==
    Entry("serialize_key", "keystore", frame.subject, frame.public_key, KeyFormat(frame.subject), <<>>)

\* serialize_key(keystore, SerializeKey { mechanism, key: public_key, format }).unwrap().serialized_key
SerializeKey ==
    /\ pc = "serialize_key"
    /\ \/ /\ Issue(SerializeKeyRequest, "ok")
          /\ \E b \in SerializedKeys(frame.subject) : frame' = [frame EXCEPT !.serialized_key = b]
          /\ pc' = "delete_key"
          /\ UNCHANGED result
       \/ /\ Issue(SerializeKeyRequest, "err")
          /\ Panic
          /\ UNCHANGED frame
    /\ UNCHANGED <<calls, request, Stores, pre, Enc>>

\* the SPKI block left without deleting the derived key
DeleteKey_missing ==
    /\ pc = "delete_key"
    /\ pc' = "convert_key"
    /\ UNCHANGED <<calls, request, Stores, frame, pre, log, result, Enc>>

\* keystore.delete_key(&public_key.object_id)
DeleteKey ==
    /\ pc = "delete_key"
    /\ Issue(Entry("delete_key", "keystore", "-", frame.public_key, "-", <<>>), "ok")
    /\ keystore' = delete_key(keystore, frame.public_key)
    /\ pc' = "convert_key"
    /\ UNCHANGED <<calls, request, attn_keystore, certstore, counterstore, frame, pre, result, Enc>>

KeyLength(m) == IF m = "Ed255" THEN 32 ELSE 65

\* SerializedSubjectPublicKey::Ed255 / ::P256 of
\* serialized_key.as_ref().try_into().map_err(|_| Error::ImplementationError)?
ConvertKey ==
    /\ pc = "convert_key"
    /\ IF Len(frame.serialized_key) = KeyLength(frame.subject)
       THEN /\ frame' = [frame EXCEPT !.spki = [variant |-> frame.subject,
                                                key |-> frame.serialized_key]]
            /\ pc' = "encode_tbs"
            /\ UNCHANGED result
       ELSE /\ Return(Err("ImplementationError"))
            /\ UNCHANGED frame
    /\ UNCHANGED <<calls, request, Stores, pre, log, Enc>>

\* the encoded TBS block persisted as soon as it is encoded, before it is signed
EncodeTbs_persisting ==
    /\ pc = "encode_tbs"
    /\ \/ /\ frame' = [frame EXCEPT !.message =
                  MakeMessage(MakeTbs(frame.serial, frame.signature_algorithm, frame.spki)).bytes]
          /\ certstore' = write_certificate(certstore, counterstore, frame'.message)
          /\ counterstore' = counterstore + 1
          /\ pc' = "sign"
          /\ UNCHANGED result
       \/ /\ Return(Err("InternalError"))
          /\ UNCHANGED <<frame, certstore, counterstore>>
    /\ UNCHANGED <<calls, request, keystore, attn_keystore, pre, log, Enc>>

\* TbsCertificate { .. } and TaggedValue::new(Tag::SEQUENCE, &tbs).to_heapless_vec()
\*     .map_err(|_| Error::InternalError)?
\* to_heapless_vec answers with the bytes encode() wrote, or with an error.
EncodeTbs ==
    /\ pc = "encode_tbs"
    /\ \/ /\ frame' = [frame EXCEPT !.message =
                  MakeMessage(MakeTbs(frame.serial, frame.signature_algorithm, frame.spki)).bytes]
          /\ pc' = "sign"
          /\ UNCHANGED result
       \/ /\ Return(Err("InternalError"))
          /\ UNCHANGED frame
    /\ UNCHANGED <<calls, request, Stores, pre, log, Enc>>

\* the attestation key chosen by the subject key's type, not by the resolved algorithm
SignRequest_by_subject(alg, message) ==
    IF frame.subject = "Ed255"
    THEN Entry("sign", "attn_keystore", "Ed255", ED255_ATTN_KEY, "Raw", message)
    ELSE Entry("sign", "attn_keystore", "P256", P256_ATTN_KEY, "Asn1Der", message)

\* the request::Sign of each arm of `match signature_algorithm`, and the keystore it goes to
SignRequest(alg, message) ==
    IF alg = "Ed255"
    THEN Entry("sign", "attn_keystore", "Ed255", ED255_ATTN_KEY, "Raw", message)
    ELSE Entry("sign", "attn_keystore", "P256", P256_ATTN_KEY, "Asn1Der", message)

\* capacity of heapless_bytes::Bytes<U72>
MaxSignatureLength == 72

\* whether the answered signature fits: try_into::<[u8; 64]>() / Bytes::<U72>::try_from_slice
SignatureFits(alg, sig) ==
    IF alg = "Ed255" THEN Len(sig) = 64 ELSE Len(sig) <= MaxSignatureLength

\* sign(attn_keystore, ..)?.signature, then .try_into().unwrap() / try_from_slice(..).unwrap()
Sign ==
    /\ pc = "sign"
    /\ \/ /\ Issue(SignRequest(frame.signature_algorithm, frame.message), "ok")
          /\ \E sig \in Signatures(frame.signature_algorithm) :
              IF SignatureFits(frame.signature_algorithm, sig)
              THEN /\ frame' = [frame EXCEPT !.signature =
                                    [variant |-> frame.signature_algorithm, sig |-> sig]]
                   /\ pc' = "encode_certificate"
                   /\ UNCHANGED result
              ELSE /\ Panic
                   /\ UNCHANGED frame
       \/ /\ Issue(SignRequest(frame.signature_algorithm, frame.message), "err")
          /\ \E e \in CollaboratorErrors : Return(Err(e))
          /\ UNCHANGED frame
    /\ UNCHANGED <<calls, request, Stores, pre, Enc>>

\* Certificate { tbs_certificate: &message, signature_algorithm, signature }
\*     .to_heapless_vec().map_err(|_| Error::ImplementationError)?
EncodeCertificate ==
    /\ pc = "encode_certificate"
    /\ \/ /\ frame' = [frame EXCEPT !.certificate =
                  Certificate([tbs_certificate     |-> frame.message,
                               signature_algorithm |-> frame.signature_algorithm,
                               signature           |-> frame.signature]).bytes]
          /\ pc' = "write_certificate"
          /\ UNCHANGED result
       \/ /\ Return(Err("ImplementationError"))
          /\ UNCHANGED frame
    /\ UNCHANGED <<calls, request, Stores, pre, log, Enc>>

WriteCertificateRequest == Entry("write_certificate", "certstore", "-", 0, "Internal", frame.certificate)

\* certstore.write_certificate(Location::Internal, &certificate, counterstore)?
\* and Ok(AttestReply { certificate: id })
WriteCertificate ==
    /\ pc = "write_certificate"
    /\ \/ /\ Issue(WriteCertificateRequest, "ok")
          /\ certstore' = write_certificate(certstore, counterstore, frame.certificate)
          /\ counterstore' = counterstore + 1
          /\ Return(Ok(counterstore + 1))
       \/ /\ Issue(WriteCertificateRequest, "err")
          /\ \E e \in CollaboratorErrors : Return(Err(e))
          /\ UNCHANGED <<certstore, counterstore>>
    /\ UNCHANGED <<calls, request, keystore, attn_keystore, frame, pre, Enc>>

AttnKeys == { [id |-> ED255_ATTN_KEY, mechanism |-> "Ed255", kind |-> "secret"],
              [id |-> P256_ATTN_KEY, mechanism |-> "P256", kind |-> "secret"] }

NoValue == [type |-> "-", v |-> <<>>]

NoOutput == [len |-> 0, bytes |-> <<>>, done |-> FALSE]

Init ==
    /\ pc = "idle"
    /\ calls = 0
    /\ request = [signing_mechanism |-> "-", private_key |-> 0]
    /\ keystore \in SUBSET SecretKeys
    /\ attn_keystore = AttnKeys
    /\ certstore = {}
    /\ counterstore = 0
    /\ frame = EmptyFrame
    /\ pre = [keystore |-> keystore, attn_keystore |-> attn_keystore,
              certstore |-> certstore, counterstore |-> counterstore]
    /\ log = <<>>
    /\ result = NoResult
    /\ val = NoValue
    /\ out = NoOutput

Next ==
    \/ \E m \in Mechanisms, k \in Handles :
           Attest([signing_mechanism |-> m, private_key |-> k])
    \/ FillSerial
    \/ ExistsEd255
    \/ ExistsP256
    \/ DeriveKey
    \/ SerializeKey
    \/ DeleteKey
    \/ ConvertKey
    \/ EncodeTbs
    \/ Sign
    \/ EncodeCertificate
    \/ WriteCertificate

Spec == Init /\ [][Next]_vars

(***************************************************************************)
(* The encoders on their own: a value is drawn, then its encoded_length()  *)
(* and encode() are applied.                                               *)
(***************************************************************************)
RECURSIVE SeqsUpTo(_, _)
SeqsUpTo(S, n) ==
    IF n = 0 THEN {<<>>}
    ELSE LET shorter == SeqsUpTo(S, n - 1)
         IN  shorter \cup {Append(s, b) : s \in shorter, b \in S}

IntegerInputs ==
    SeqsUpTo({0, 1, 128}, MaxIntLen)
    \cup {<<f>> \o Fill(19, r) : f \in {0, 1, 127, 128, 255}, r \in {0, 255}}

\* "20491231235959Z", "20500101000000Z", "19991231235959Z" and
\* "21000101000000Z" beside the two literals of the module
DatetimeInputs ==
    { FixedStart, DefaultEnd,
      <<50, 48, 52, 57, 49, 50, 51, 49, 50, 51, 53, 57, 53, 57, 90>>,
      <<50, 48, 53, 48, 48, 49, 48, 49, 48, 48, 48, 48, 48, 48, 90>>,
      <<49, 57, 57, 57, 49, 50, 51, 49, 50, 51, 53, 57, 53, 57, 90>>,
      <<50, 49, 48, 48, 48, 49, 48, 49, 48, 48, 48, 48, 48, 48, 90>> }

NameInputs ==
    { [country |-> c, organization |-> o] :
        c \in {<<>>, << <<67, 72>> >>},
        o \in {<<>>, << Trussed >>, << <<>> >>, << Fill(20, 65) >>} }

ValidityInputs ==
    { [start |-> s, end |-> e] :
        s \in DatetimeInputs, e \in {<<>>} \cup {<<d>> : d \in DatetimeInputs} }

SpkiInputs ==
    { [variant |-> "Ed255", key |-> Fill(32, b)] : b \in {0, 171} }
    \cup { [variant |-> "P256", key |-> <<4>> \o Fill(64, b)] : b \in {0, 171} }

SignatureInputs ==
    { [variant |-> "Ed255", sig |-> Fill(64, b)] : b \in {0, 205} }
    \cup { [variant |-> "P256", sig |-> Fill(n, 205)] : n \in 0..MaxSignatureLength }

TbsInputs ==
    { MakeTbs(s, a, k) :
        s \in {<<f>> \o Fill(19, 7) : f \in {0, 128}},
        a \in {"Ed255", "P256"},
        k \in {[variant |-> "Ed255", key |-> Fill(32, 171)],
               [variant |-> "P256", key |-> <<4>> \o Fill(64, 171)]} }

CertificateInputs ==
    { [tbs_certificate |-> MakeMessage(t).bytes, signature_algorithm |-> t.signature_algorithm,
       signature |-> IF t.signature_algorithm = "Ed255"
                     THEN [variant |-> "Ed255", sig |-> Fill(64, 205)]
                     ELSE [variant |-> "P256", sig |-> Fill(n, 205)]] :
        t \in TbsInputs, n \in {70, MaxSignatureLength} }

Value(type, v) == [type |-> type, v |-> v]

\* the values the encoders are applied to
DrawValue(x) ==
    \/ x = Value("Version", <<>>)
    \/ \E v \in IntegerInputs : x = Value("BigEndianInteger", v)
    \/ \E v \in {"Ed255", "P256"} : x = Value("SignatureAlgorithm", v)
    \/ \E v \in NameInputs : x = Value("Name", v)
    \/ \E v \in DatetimeInputs : x = Value("Datetime", v)
    \/ \E v \in ValidityInputs : x = Value("Validity", v)
    \/ \E v \in SpkiInputs : x = Value("SerializedSubjectPublicKey", v)
    \/ \E v \in SignatureInputs : x = Value("SerializedSignature", v)
    \/ \E v \in TbsInputs : x = Value("TbsCertificate", v)
    \/ \E v \in CertificateInputs : x = Value("Certificate", v)

\* the Encodable impl of the value's type
Encodable(x) ==
    CASE x.type = "Version"                    -> Version
      [] x.type = "BigEndianInteger"           -> BigEndianInteger(x.v)
      [] x.type = "SignatureAlgorithm"         -> SignatureAlgorithm(x.v)
      [] x.type = "Name"                       -> Name(x.v)
      [] x.type = "Datetime"                   -> Datetime(x.v)
      [] x.type = "Validity"                   -> Validity(x.v)
      [] x.type = "SerializedSubjectPublicKey" -> SerializedSubjectPublicKey(x.v)
      [] x.type = "SerializedSignature"        -> SerializedSignature(x.v)
      [] x.type = "TbsCertificate"             -> TbsCertificate(x.v)
      [] x.type = "Certificate"                -> Certificate(x.v)

InitEnc ==
    /\ pc = "idle"
    /\ calls = 0
    /\ request = [signing_mechanism |-> "-", private_key |-> 0]
    /\ keystore = {}
    /\ attn_keystore = AttnKeys
    /\ certstore = {}
    /\ counterstore = 0
    /\ frame = EmptyFrame
    /\ pre = [keystore |-> keystore, attn_keystore |-> attn_keystore,
              certstore |-> certstore, counterstore |-> counterstore]
    /\ log = <<>>
    /\ result = NoResult
    /\ DrawValue(val)
    /\ out = NoOutput

\* encoded_length() and encode() of the value
Encode ==
    /\ ~out.done
    /\ out' = [len |-> Encodable(val).len, bytes |-> Encodable(val).bytes, done |-> TRUE]
    /\ UNCHANGED <<pc, calls, request, Stores, frame, pre, log, result, val>>

NextEnc == Encode

SpecEnc == InitEnc /\ [][NextEnc]_vars

(***************************************************************************)
(* Properties of try_attest.                                               *)
(***************************************************************************)
Supported == {"Ed255", "P256"}

\* a call has been made and has ended, by returning or by aborting
CallEnded == calls > 0 /\ pc \in {"idle", "panicked"}

\* positions of the log holding a request of one of the operations
Positions(ops) == {i \in 1..Len(log) : log[i].op \in ops}

StoresAsBefore ==
    /\ keystore = pre.keystore
    /\ attn_keystore = pre.attn_keystore
    /\ certstore = pre.certstore
    /\ counterstore = pre.counterstore

\* C1: a request whose signing mechanism is neither Ed255 nor P256 ends at once
\* with Err(MechanismNotAvailable): no request at all has gone to a collaborator
\* (no drbg, exists, derive_key, serialize_key, delete_key, sign,
\* write_certificate) and the four stores are as they were before the call.
C1_UnsupportedMechanismRejected ==
    (calls > 0 /\ request.signing_mechanism \notin Supported) =>
        /\ pc = "idle"
        /\ result = Err("MechanismNotAvailable")
        /\ log = <<>>
        /\ StoresAsBefore

\* an unsupported mechanism is rejected by a call that follows a successful one
C1_Witness ==
    /\ calls = 2
    /\ request.signing_mechanism = "X255"
    /\ result = Err("MechanismNotAvailable")
    /\ certstore # {}

\* derive_key has answered with a key in the current call
Derived == frame.public_key # 0

\* delete_key has been issued for the derived key
DeleteIssued ==
    \E i \in Positions({"delete_key"}) : log[i].key = frame.public_key /\ log[i].store = "keystore"

\* C2: whenever derive_key has succeeded, then when the call ends (Ok, Err or
\* abort) delete_key has been issued for the derived key and the keystore holds
\* no key object it did not hold before the call.
C2_DerivedKeyDeletedOnEveryExit ==
    (CallEnded /\ Derived) => (DeleteIssued /\ keystore \subseteq pre.keystore)

\* C3: on every path that returns Ok, derive_key, serialize_key and delete_key
\* of the derived key are issued exactly once each, one right after the other in
\* that order, and before the sign and write_certificate requests; and from the
\* moment the SPKI step is left (TBS encoding, signing, assembly, persisting)
\* the derived key has been deleted and the keystore is as before the call.
C3_DeriveSerializeDeleteUnit ==
    /\ result.kind = "Ok" =>
           \E d \in 1..Len(log) :
               /\ Positions({"derive_key"}) = {d}
               /\ Positions({"serialize_key"}) = {d + 1}
               /\ Positions({"delete_key"}) = {d + 2}
               /\ log[d].answer = "ok"
               /\ log[d + 1].key = frame.public_key
               /\ log[d + 2].key = frame.public_key
               /\ \A i \in Positions({"sign", "write_certificate"}) : i > d + 2
    /\ pc \in {"encode_tbs", "sign", "encode_certificate", "write_certificate"} =>
           /\ Derived
           /\ DeleteIssued
           /\ frame.public_key \notin Ids(keystore)
           /\ keystore = pre.keystore
    /\ (frame.message # <<>> \/ Positions({"sign", "write_certificate"}) # {}) => DeleteIssued

\* a call has returned Ok for a P256 subject key
C3_Witness ==
    /\ result.kind = "Ok"
    /\ frame.subject = "P256"
    /\ Len(log) = 8

\* C4: write_certificate is requested at most once per call and is then the last
\* request of the call, made after signing succeeded and with the assembled
\* certificate; until it is requested the certificate store and the counter store
\* are as before the call, so a call that ends with Err (or aborts) because of an
\* earlier step leaves them unchanged and returns no certificate handle; a call
\* that returns Ok has added exactly the assembled certificate.
C4_NoPartialCertificate ==
    /\ Cardinality(Positions({"write_certificate"})) <= 1
    /\ \A i \in Positions({"write_certificate"}) :
           /\ i = Len(log)
           /\ \E j \in Positions({"sign"}) : j < i /\ log[j].answer = "ok"
           /\ log[i].message = frame.certificate
           /\ frame.certificate # <<>>
           /\ frame.signature.variant # "-"
    /\ (calls > 0 /\ Positions({"write_certificate"}) = {}) =>
           /\ certstore = pre.certstore
           /\ counterstore = pre.counterstore
           /\ result.kind # "Ok"
           /\ result.certificate = 0
    /\ result.kind = "Ok" =>
           /\ certstore = pre.certstore \cup {[id |-> result.certificate, der |-> frame.certificate]}
           /\ Cardinality(certstore) = Cardinality(pre.certstore) + 1

\* a call fails after signing, at certificate assembly, with a certificate
\* of an earlier call in the store
C4_Witness ==
    /\ CallEnded
    /\ result = Err("ImplementationError")
    /\ Positions({"sign"}) # {}
    /\ certstore # {}
    /\ certstore = pre.certstore

\* C5: every failure of a step of try_attest is returned to the caller as an
\* Err value: the call never aborts (panics).
C5_EveryFailureIsReturned ==
    CallEnded => (pc = "idle" /\ result.kind \in {"Ok", "Err"})

\* both exists queries have been answered, and answered false
BothAnsweredFalse ==
    \E i, j \in Positions({"exists"}) :
        /\ log[i].mechanism = "Ed255" /\ log[i].answer = "false"
        /\ log[j].mechanism = "P256" /\ log[j].answer = "false"

KeyAbsent ==
    /\ ~exists_key(pre.keystore, "Ed255", request.private_key)
    /\ ~exists_key(pre.keystore, "P256", request.private_key)

\* C6: for a supported signing mechanism, if the private key exists in the
\* keystore under neither Ed255 nor P256, no key is derived, serialized or
\* deleted, nothing is signed and write_certificate is not called; the call ends
\* with an Err, which is Err(NoSuchKey) once both exists queries have answered.
C6_AbsentKeyIsNoSuchKey ==
    (calls > 0 /\ request.signing_mechanism \in Supported /\ KeyAbsent) =>
        /\ Positions({"derive_key", "serialize_key", "delete_key", "sign", "write_certificate"}) = {}
        /\ pc \in {"idle", "fill_serial", "exists_ed255", "exists_p256"}
        /\ pc = "idle" => result.kind = "Err"
        /\ (pc = "idle" /\ Positions({"exists"}) # {} /\ \A i \in Positions({"exists"}) : log[i].answer # "err")
               => (result = Err("NoSuchKey") /\ BothAnsweredFalse)
        /\ keystore = pre.keystore

\* the key is absent under both mechanisms and the call has returned NoSuchKey
C6_Witness ==
    /\ CallEnded
    /\ KeyAbsent
    /\ pre.keystore # {}
    /\ BothAnsweredFalse
    /\ result = Err("NoSuchKey")

AttnKey(alg) == IF alg = "Ed255" THEN ED255_ATTN_KEY ELSE P256_ATTN_KEY

\* C7: the single sign request of a call goes to the attestation keystore, for
\* the TBS bytes, with the mechanism, the well-known attestation key handle and
\* the signature format of the algorithm resolved from request.signing_mechanism
\* (Ed255: ED255_ATTN_KEY, Raw; P256: P256_ATTN_KEY, Asn1Der), whatever the
\* subject key's type; nothing is derived from, serialized from or deleted in
\* the attestation keystore, which stays as it was.
C7_SignedWithAttestationKey ==
    /\ Cardinality(Positions({"sign"})) <= 1
    /\ \A i \in Positions({"sign"}) :
           /\ log[i].store = "attn_keystore"
           /\ log[i].mechanism = request.signing_mechanism
           /\ log[i].mechanism \in Supported
           /\ log[i].key = AttnKey(request.signing_mechanism)
           /\ log[i].format = (IF request.signing_mechanism = "Ed255" THEN "Raw" ELSE "Asn1Der")
           /\ log[i].message = frame.message
           /\ frame.message # <<>>
    /\ \A i \in Positions({"derive_key", "serialize_key", "delete_key", "exists", "drbg"}) :
           log[i].store = "keystore"
    /\ attn_keystore = AttnKeys

\* a P256 subject key is attested under Ed255: the Ed255 attestation key signs
C7_Witness ==
    /\ frame.subject = "P256"
    /\ request.signing_mechanism = "Ed255"
    /\ request.private_key = ED255_ATTN_KEY
    /\ \E i \in Positions({"sign"}) : log[i].key = ED255_ATTN_KEY /\ log[i].answer = "ok"

(***************************************************************************)
(* Properties of the encoders.  ReadTlv reads back the TLV that starts at  *)
(* position p of a byte string, as a DER reader would.                     *)
(***************************************************************************)
Sub(bytes, a, b) == SubSeq(bytes, a, IF b > Len(bytes) THEN Len(bytes) ELSE b)

ReadTlv(bytes, p) ==
    LET first == bytes[p + 1]
        h == IF first < 128 THEN 2 ELSE 2 + (first - 128)
        n == IF first < 128 THEN first
             ELSE IF first = 129 THEN bytes[p + 2]
             ELSE bytes[p + 2] * 256 + bytes[p + 3]
    IN  [ tag     |-> bytes[p],
          length  |-> n,
          start   |-> p + h,
          content |-> Sub(bytes, p + h, p + h + n - 1),
          whole   |-> Sub(bytes, p, p + h + n - 1),
          next    |-> p + h + n ]

\* C8: the Certificate encoder embeds the already encoded TBS block (the bytes
\* that were signed, SEQUENCE tag and length included) verbatim as the first
\* element of the outer SEQUENCE, with no second SEQUENCE header around it.
C8_TbsEmbeddedVerbatim ==
    (out.done /\ val.type = "Certificate") =>
        LET outer == ReadTlv(out.bytes, 1)
            first == ReadTlv(out.bytes, outer.start)
        IN  /\ outer.tag = Tag.SEQUENCE
            /\ first.whole = val.v.tbs_certificate

C9Types ==
    { "Version", "BigEndianInteger", "SignatureAlgorithm", "Name", "Datetime", "Validity",
      "SerializedSubjectPublicKey", "SerializedSignature" }

\* C9: for every encodable value, encoded_length() equals the number of bytes
\* encode() emits.
C9_LengthMatchesEmitted ==
    (out.done /\ val.type \in C9Types) => out.len = Len(out.bytes)

\* C10: the BIT STRING of an SPKI and the signature BIT STRING of a certificate
\* each declare payload length + 1 and hold exactly one 0x00 byte followed by
\* the raw payload (key bytes, signature bytes), nothing else.
C10_BitStringFraming ==
    /\ (out.done /\ val.type = "SerializedSubjectPublicKey") =>
           LET algorithm == ReadTlv(out.bytes, 1)
               bits      == ReadTlv(out.bytes, algorithm.next)
           IN  /\ bits.tag = Tag.BIT_STRING
               /\ bits.length = Len(val.v.key) + 1
               /\ bits.content = <<0>> \o val.v.key
               /\ bits.next = Len(out.bytes) + 1
    /\ (out.done /\ val.type = "Certificate") =>
           LET outer     == ReadTlv(out.bytes, 1)
               tbs       == ReadTlv(out.bytes, outer.start)
               algorithm == ReadTlv(out.bytes, tbs.next)
               bits      == ReadTlv(out.bytes, algorithm.next)
           IN  /\ bits.tag = Tag.BIT_STRING
               /\ bits.length = Len(val.v.signature.sig) + 1
               /\ bits.content = <<0>> \o val.v.signature.sig
               /\ bits.next = Len(out.bytes) + 1

\* number of 0x00 bytes an input starts with
LeadingZeros(input) ==
    Cardinality({i \in 1..Len(input) : \A j \in 1..i : input[j] = 0})

\* C11: for every input byte sequence (empty, all zero, the 20-byte serial
\* included) BigEndianInteger emits the input without its leading 0x00 bytes,
\* preceded by exactly one 0x00 byte if and only if what is left is empty or
\* starts with a byte >= 0x80; so an empty or all-zero input gives the single
\* byte 0x00, the content is never empty, never starts with 0x00 followed by a
\* byte < 0x80, and encoded_length() is the number of content bytes emitted.
C11_MinimalIntegerLaw ==
    (out.done /\ val.type = "BigEndianInteger") =>
        LET input    == val.v
            stripped == SubSeq(input, LeadingZeros(input) + 1, Len(input))
            padded   == IF stripped = <<>> THEN TRUE ELSE stripped[1] >= 128
        IN  /\ out.bytes = (IF padded THEN <<0>> ELSE <<>>) \o stripped
            /\ (\A i \in 1..Len(input) : input[i] = 0) => out.bytes = <<0>>
            /\ out.bytes # <<>>
            /\ ~(Len(out.bytes) >= 2 /\ out.bytes[1] = 0 /\ out.bytes[2] < 128)
            /\ (Len(out.bytes) >= 2 /\ out.bytes[1] = 0) => padded
            /\ out.len = Len(out.bytes)

\* a 20-byte serial that starts with 0x00 and goes on with a byte >= 0x80:
\* the zero is stripped and one zero is put back
C11_Witness ==
    /\ out.done
    /\ val.type = "BigEndianInteger"
    /\ Len(val.v) = 20
    /\ val.v[1] = 0
    /\ val.v[2] >= 128
    /\ out.bytes = val.v

\* the first four characters of a literal are lexicographically below "2050":
\* at the first position where they differ the literal has the smaller byte
Before2050(dt) ==
    \E i \in 1..4 :
        /\ dt[i] < Year2050[i]
        /\ \A j \in 1..(i - 1) : dt[j] = Year2050[j]

\* the time a 15-character literal stands for: UTCTime (tag 0x17) of its
\* characters 3..15, or GeneralizedTime (tag 0x18) of all fifteen
ExpectedTime(dt) ==
    IF Before2050(dt)
    THEN <<23, 13>> \o SubSeq(dt, 3, 15)
    ELSE <<24, 15>> \o dt

\* C12: a 15-character literal "YYYYMMDDHHMMSSZ" whose first four characters
\* are lexicographically below "2050" is emitted as UTCTime with the 13 bytes
\* after the century digits as content, any other as GeneralizedTime with all
\* 15 bytes as content; encoded_length() takes the same branch as encode() for
\* every input; and a Validity whose end is unset emits its start followed by
\* the GeneralizedTime "99991231235959Z".
C12_DatetimeCutover ==
    /\ (out.done /\ val.type = "Datetime") =>
           /\ Len(val.v) = 15
           /\ out.bytes = ExpectedTime(val.v)
           /\ out.len = (IF Before2050(val.v) THEN 15 ELSE 17)
           /\ out.len = Len(out.bytes)
    /\ (out.done /\ val.type = "Validity" /\ val.v.end = <<>>) =>
           out.bytes = ExpectedTime(val.v.start)
                       \o <<24, 15, 57, 57, 57, 57, 49, 50, 51, 49, 50, 51, 53, 57, 53, 57, 90>>

\* a Validity that starts in 2049 and has no end: a UTCTime, then the default end
C12_Witness ==
    /\ out.done
    /\ val.type = "Validity"
    /\ val.v.end = <<>>
    /\ SubSeq(val.v.start, 1, 4) = <<50, 48, 52, 57>>
    /\ out.bytes[1] = Tag.UTC_TIME
    /\ out.bytes[16] = Tag.GENERALIZED_TIME
    /\ Len(out.bytes) = 32

\* positions of the log holding an exists query for the mechanism
ExistsAt(m) == {i \in Positions({"exists"}) : log[i].mechanism = m}

\* the handle of the request is a key of the mechanism when the call begins
HandleUnder(m) == exists_key(pre.keystore, m, request.private_key)

\* the key type the order of the queries gives the subject: Ed255 if the handle
\* exists under Ed255, else P256 if it exists under P256
SubjectType ==
    IF HandleUnder("Ed255") THEN "Ed255"
    ELSE IF HandleUnder("P256") THEN "P256"
    ELSE "-"

\* C13: the subject key type is found by asking whether request.private_key
\* exists under Ed255 first, and under P256 only if the Ed255 query answered
\* false.  When the handle exists under Ed255 (under P256 as well or not) the
\* P256 query is never issued, the key is derived and serialized with mechanism
\* Ed255 in Raw format and the SPKI is the Ed255 variant; the P256 derive and
\* serialize (Sec1) requests are issued only when the handle is absent under
\* Ed255 and present under P256.  request.signing_mechanism plays no part.
C13_Ed255CheckedFirst ==
    /\ \A i \in Positions({"exists"}) :
           /\ log[i].store = "keystore"
           /\ log[i].key = request.private_key
           /\ log[i].mechanism \in {"Ed255", "P256"}
           /\ log[i].answer = "true" => HandleUnder(log[i].mechanism)
           /\ log[i].answer = "false" => ~HandleUnder(log[i].mechanism)
    /\ Cardinality(ExistsAt("Ed255")) <= 1
    /\ Cardinality(ExistsAt("P256")) <= 1
    /\ \A j \in ExistsAt("P256") :
           \E i \in ExistsAt("Ed255") : i + 1 = j /\ log[i].answer = "false"
    /\ \A i \in Positions({"derive_key", "serialize_key"}) :
           /\ \E e \in ExistsAt(log[i].mechanism) : e < i /\ log[e].answer = "true"
           /\ log[i].mechanism = SubjectType
           /\ log[i].op = "derive_key" => log[i].key = request.private_key
           /\ log[i].op = "serialize_key" =>
                  log[i].format = (IF SubjectType = "Ed255" THEN "Raw" ELSE "Sec1")
    /\ (calls > 0 /\ HandleUnder("Ed255")) =>
           /\ ExistsAt("P256") = {}
           /\ \A i \in Positions({"derive_key", "serialize_key"}) : log[i].mechanism = "Ed255"
           /\ \A i \in Positions({"serialize_key"}) : log[i].format = "Raw"
           /\ frame.spki.variant \in {"-", "Ed255"}
    /\ \A i \in Positions({"derive_key", "serialize_key"}) :
           log[i].mechanism = "P256" => (~HandleUnder("Ed255") /\ HandleUnder("P256"))
    /\ frame.spki.variant # "-" => frame.spki.variant = SubjectType
    /\ (frame.message # <<>> \/ result.kind = "Ok") => frame.spki.variant = SubjectType

\* a handle that exists under both mechanisms is attested with P256 as the
\* signing mechanism: one exists query, an Ed255 SPKI, and the call returns Ok
C13_Witness ==
    /\ result.kind = "Ok"
    /\ request.signing_mechanism = "P256"
    /\ HandleUnder("Ed255")
    /\ HandleUnder("P256")
    /\ Cardinality(Positions({"exists"})) = 1
    /\ \E i \in Positions({"serialize_key"}) : log[i].mechanism = "Ed255" /\ log[i].format = "Raw"
    /\ frame.spki.variant = "Ed255"

====
